---- MODULE Spec2Model ----
(***************************************************************************)
(* Model of defk.py: the decorator `defk` that adapts a multi-parameter    *)
(* function into a "keyword function" taking one dict.                     *)
(*                                                                         *)
(* Python objects are records tagged by `type`.  A target function is the  *)
(* record that inspect.getargspec reads (args, varargs, keywords,          *)
(* defaults) plus what its body does when it is finally called.            *)
(* A dict is a TLA+ function whose DOMAIN is its key set.  Values put in   *)
(* an argument list are tagged (IntV / DictV): such a list holds both      *)
(* looked-up values and, for the `_as` parameter, the dict itself.         *)
(***************************************************************************)
EXTENDS Integers, Sequences, FiniteSets, TLC

VARIABLES pc, _as, target, deco, wrapper, raised, d, last, first

vars == <<pc, _as, target, deco, wrapper, raised, d, last, first>>

(* ------------------------------ bounds --------------------------------- *)

\* how many of NameSeq's names generated target functions may declare
NumNames == 2
\* the longest generated parameter list
MaxParams == 2

NameSeq == <<"a", "c", "r", "q">>

ParamNames == {NameSeq[i] : i \in 1..NumNames}

\* keys the caller's dict may hold: two parameter names and one stray key
MapKeys == {"a", "c", "f"}

\* values the caller's dict may hold
Vals == {1, 5, 9}

(* --------------------------- Python objects ---------------------------- *)

None == "<None>"

NoneObj == [type |-> "NoneType"]

StrV(s) == [type |-> "str", s |-> s]

IntV(v) == [type |-> "int", v |-> v]

DictV(m) == [type |-> "dict", m |-> m]

\* what d.get(x) yields for an absent key
NoneV == [type |-> "NoneType", v |-> 0]

EmptyDict == [k \in {} |-> 0]

\* Python truthiness of an optional string: None and '' are falsy
Truthy(s) == s # None /\ s # ""

InSeq(x, s) == \E i \in 1..Len(s) : s[i] = x

Injective(s) == \A i, j \in 1..Len(s) : s[i] = s[j] => i = j

ArgLists ==
    {s \in UNION {[1..n -> ParamNames] : n \in 0..MaxParams} : Injective(s)}

\* the default a generated function declares for its parameter at (1-based)
\* position p: distinct per position, and distinct from every dict value
DefaultAt(p) == 100 + p

\* the trailing run of nd defaults of a parameter list of length n
DefaultRun(n, nd) == [j \in 1..nd |-> DefaultAt(n - nd + j)]

Bodies == {"returns", "raisesKeyError", "raisesValueError"}

GeneratedFuncs ==
    {[type |-> "function", args |-> a, defaults |-> DefaultRun(Len(a), nd),
      varargs |-> va, keywords |-> kw, body |-> b] :
        a \in ArgLists, nd \in 0..MaxParams, va \in {None, "args"},
        kw \in {None, "kw"}, b \in Bodies}

\* def test_complex(a, c, whole, r=101, **k): return [a, c, whole, r, k]
test_complex ==
    [type |-> "function", args |-> <<"a", "c", "whole", "r">>,
     defaults |-> <<101>>, varargs |-> None, keywords |-> "k",
     body |-> "returns"]

Funcs == {f \in GeneratedFuncs : Len(f.defaults) <= Len(f.args)} \cup {test_complex}

AliasStrings == ParamNames \cup {"", "whole"}

DefkArgs == {StrV(s) : s \in AliasStrings} \cup Funcs \cup {NoneObj}

(* ------------------------------ defk.py -------------------------------- *)

Raised(e) == [kind |-> "raise", exc |-> e]

\* decorator, had it refused a target that declares *args
decorator_rejectsVarargs(alias, f) ==
    IF f.type # "function"
    THEN Raised("TypeError")
    ELSE IF f.varargs # None
    THEN Raised("UnsupportedSignature")
    ELSE [kind |-> "F", f |-> f, keys |-> f.args, defaults |-> f.defaults,
          splat |-> f.keywords,
          defaults_begin |-> Len(f.args) - Len(f.defaults),
          alias |-> alias]

\* def decorator(f): reads the signature once and returns the closure F
decorator(alias, f) ==
    IF f.type # "function"
    THEN Raised("TypeError")                    \* getargspec(f) rejects it
    ELSE LET keys == f.args                     \* argspec.args
             defaults == f.defaults             \* argspec.defaults or ()
             splat == f.keywords                \* argspec.keywords
         IN  [kind |-> "F", f |-> f, keys |-> keys, defaults |-> defaults,
              splat |-> splat,
              defaults_begin |-> Len(keys) - Len(defaults),
              alias |-> alias]

\* def defk(_as=None)
defk(a) ==
    LET isStr == a.type = "str"                 \* isinstance(_as, basestring)
        alias == IF isStr THEN a.s ELSE None    \* line 79: _as = None
    IN  IF Truthy(alias)                        \* line 118: if _as:
        THEN [kind |-> "decorator", alias |-> alias]
        ELSE IF isStr
             THEN Raised("UnboundLocalError")   \* line 121: f was never bound
             ELSE decorator(alias, a)           \* line 121: decorator(f)

\* Resolve, had line 99 read args.append(d.get(x))
Resolve_get(w, d0, i) ==
    LET x == w.keys[i + 1]
    IN  IF Truthy(w.alias) /\ x = w.alias
        THEN [ok |-> TRUE, v |-> DictV(d0)]
        ELSE IF x \in DOMAIN d0
             THEN [ok |-> TRUE, v |-> IntV(d0[x])]
             ELSE [ok |-> TRUE, v |-> NoneV]

\* Resolve, had line 104 read args.append(defaults[0])
Resolve_firstDefault(w, d0, i) ==
    LET x == w.keys[i + 1]
    IN  IF Truthy(w.alias) /\ x = w.alias
        THEN [ok |-> TRUE, v |-> DictV(d0)]
        ELSE IF x \in DOMAIN d0
             THEN [ok |-> TRUE, v |-> IntV(d0[x])]
             ELSE IF i >= w.defaults_begin
                  THEN [ok |-> TRUE, v |-> IntV(w.defaults[1])]
                  ELSE [ok |-> FALSE, key |-> x]

\* Resolve, had lines 94-96 come after the lookup instead of before it
Resolve_lookupFirst(w, d0, i) ==
    LET x == w.keys[i + 1]
    IN  IF x \in DOMAIN d0
        THEN [ok |-> TRUE, v |-> IntV(d0[x])]
        ELSE IF Truthy(w.alias) /\ x = w.alias
             THEN [ok |-> TRUE, v |-> DictV(d0)]
             ELSE IF i >= w.defaults_begin
                  THEN [ok |-> TRUE,
                        v |-> IntV(w.defaults[(i - w.defaults_begin) + 1])]
                  ELSE [ok |-> FALSE, key |-> x]

\* one turn of F's loop, for the parameter at 0-based index i
Resolve(w, d0, i) ==
    LET x == w.keys[i + 1]
    IN  IF Truthy(w.alias) /\ x = w.alias
        THEN [ok |-> TRUE, v |-> DictV(d0)]
        ELSE IF x \in DOMAIN d0
             THEN [ok |-> TRUE, v |-> IntV(d0[x])]
             ELSE IF i >= w.defaults_begin
                  THEN [ok |-> TRUE,
                        v |-> IntV(w.defaults[(i - w.defaults_begin) + 1])]
                  ELSE [ok |-> FALSE, key |-> x]

\* Bind, had lines 99 and 104 read args.insert(0, ...)
RECURSIVE Bind_reversed(_, _, _, _)
Bind_reversed(w, d0, i, args) ==
    IF i >= Len(w.keys)
    THEN [ok |-> TRUE, args |-> args]
    ELSE LET r == Resolve(w, d0, i)
         IN  IF r.ok
             THEN Bind_reversed(w, d0, i + 1,
                     IF Truthy(w.alias) /\ w.keys[i + 1] = w.alias
                     THEN Append(args, r.v) ELSE <<r.v>> \o args)
             ELSE [ok |-> FALSE, key |-> r.key]

\* Bind, had line 95 read args.insert(0, d)
RECURSIVE Bind_aliasFirst(_, _, _, _)
Bind_aliasFirst(w, d0, i, args) ==
    IF i >= Len(w.keys)
    THEN [ok |-> TRUE, args |-> args]
    ELSE LET r == Resolve(w, d0, i)
         IN  IF r.ok
             THEN Bind_aliasFirst(w, d0, i + 1,
                     IF Truthy(w.alias) /\ w.keys[i + 1] = w.alias
                     THEN <<r.v>> \o args ELSE Append(args, r.v))
             ELSE [ok |-> FALSE, key |-> r.key]

\* F's loop from index i on, args being the list built so far
RECURSIVE Bind(_, _, _, _)
Bind(w, d0, i, args) ==
    IF i >= Len(w.keys)
    THEN [ok |-> TRUE, args |-> args]
    ELSE LET r == Resolve(w, d0, i)
         IN  IF r.ok
             THEN Bind(w, d0, i + 1, Append(args, r.v))
             ELSE [ok |-> FALSE, key |-> r.key]

\* RestOf, had it left out only the keys that were looked up
RestOf_lookedUp(w, d0) ==
    [k \in {k \in DOMAIN d0 : ~InSeq(k, w.keys) \/ k = w.alias} |-> d0[k]]

\* {k: v for k, v in items(d) if k not in keys}
RestOf(w, d0) == [k \in {k \in DOMAIN d0 : ~InSeq(k, w.keys)} |-> d0[k]]

NoValue == [params |-> <<>>, star |-> <<>>, kw |-> EmptyDict]

Outcome(kind, exc, key, by, calls, args, kw, splatted, value) ==
    [kind |-> kind, exc |-> exc, key |-> key, by |-> by, calls |-> calls,
     args |-> args, kw |-> kw, splatted |-> splatted, value |-> value]

\* the call f(*args, **kw): Python binds the arguments to f's parameters,
\* then f's body runs once and returns what it received, or raises
Invoke(f, args, kw, splatted) ==
    LET n == Len(args)
        np == Len(f.args)
        nb == IF n < np THEN n ELSE np
        firstDefault == np - Len(f.defaults) + 1
        clash == \E p \in 1..nb : f.args[p] \in DOMAIN kw
        unfilled == {p \in (nb + 1)..np :
                        f.args[p] \notin DOMAIN kw /\ p < firstDefault}
        extra == {k \in DOMAIN kw : ~InSeq(k, f.args)}
        params == [p \in 1..np |->
                     IF p <= nb THEN args[p]
                     ELSE IF f.args[p] \in DOMAIN kw THEN IntV(kw[f.args[p]])
                     ELSE IF p >= firstDefault
                          THEN IntV(f.defaults[p - firstDefault + 1])
                          ELSE NoneV]
        received == [params |-> params,
                     star |-> SubSeq(args, nb + 1, n),
                     kw |-> [k \in extra |-> kw[k]]]
    IN  IF \/ (n > np /\ f.varargs = None)
           \/ clash
           \/ unfilled # {}
           \/ (extra # {} /\ f.keywords = None)
        THEN Outcome("raise", "TypeError", "", "call", 0, args, kw, splatted, NoValue)
        ELSE IF f.body = "returns"
        THEN Outcome("return", "", "", "target", 1, args, kw, splatted, received)
        ELSE IF f.body = "raisesKeyError"
        THEN Outcome("raise", "KeyError", "inner", "target", 1, args, kw, splatted, NoValue)
        ELSE Outcome("raise", "ValueError", "", "target", 1, args, kw, splatted, NoValue)

\* F, had the call of f stood inside the try of lines 98-107
F_tryAroundCall(w, d0) ==
    LET b == Bind(w, d0, 0, <<>>)
        r == IF Truthy(w.splat)
             THEN Invoke(w.f, b.args, RestOf(w, d0), TRUE)
             ELSE Invoke(w.f, b.args, EmptyDict, FALSE)
    IN  IF ~b.ok
        THEN Outcome("raise", "KeyError", b.key, "F", 0, <<>>, EmptyDict,
                     FALSE, NoValue)
        ELSE IF r.exc = "KeyError" /\ Len(w.defaults) > 0
             THEN Outcome("return", "", "", "F", 1, r.args, r.kw, r.splatted,
                          [params |-> <<IntV(w.defaults[1])>>, star |-> <<>>,
                           kw |-> EmptyDict])
             ELSE r

\* F, had line 91 (args = []) stood in decorator, outside F
F_hoistedArgs(w, d0) ==
    LET b == Bind(w, d0, 0, IF last.kind = "call" THEN last.out.args ELSE <<>>)
    IN  IF ~b.ok
        THEN Outcome("raise", "KeyError", b.key, "F", 0, <<>>, EmptyDict,
                     FALSE, NoValue)
        ELSE IF Truthy(w.splat)
             THEN Invoke(w.f, b.args, RestOf(w, d0), TRUE)
             ELSE Invoke(w.f, b.args, EmptyDict, FALSE)

\* def F(d)
F(w, d0) ==
    LET b == Bind(w, d0, 0, <<>>)               \* line 91: args = []
    IN  IF ~b.ok
        THEN Outcome("raise", "KeyError", b.key, "F", 0, <<>>, EmptyDict,
                     FALSE, NoValue)            \* line 107: raise
        ELSE IF Truthy(w.splat)
             THEN Invoke(w.f, b.args, RestOf(w, d0), TRUE)
             ELSE Invoke(w.f, b.args, EmptyDict, FALSE)

(* ------------------------------- state --------------------------------- *)

Unset == [type |-> "unset"]

NoDeco == [kind |-> "none"]

NoWrapper == [kind |-> "none"]

NoCall == [kind |-> "none"]

\* every dict over MapKeys and Vals
Mappings == UNION {[S -> Vals] : S \in SUBSET MapKeys}

Init ==
    /\ pc = "start"
    /\ _as = Unset
    /\ target = Unset
    /\ deco = NoDeco
    /\ wrapper = NoWrapper
    /\ raised = ""
    /\ d \in Mappings
    /\ last = NoCall
    /\ first = NoCall

\* what a construction step (defk(a) or decorator(f)) leaves behind
Constructed(r) ==
    /\ deco' = IF r.kind = "decorator" THEN r ELSE deco
    /\ wrapper' = IF r.kind = "F" THEN r ELSE wrapper
    /\ raised' = IF r.kind = "raise" THEN r.exc ELSE raised
    /\ pc' = IF r.kind = "decorator" THEN "decorator"
             ELSE IF r.kind = "F" THEN "wrapped" ELSE "raised"

\* the construction call defk(a)
Defk(a) ==
    /\ pc = "start"
    /\ _as' = a
    /\ target' = IF a.type = "str" THEN target ELSE a
    /\ Constructed(defk(a))
    /\ UNCHANGED <<d, last, first>>

\* the decorator that defk('name') returned is applied to f
Decorate(f) ==
    /\ pc = "decorator"
    /\ target' = f
    /\ Constructed(decorator(deco.alias, f))
    /\ UNCHANGED <<_as, d, last, first>>

\* one call F(d) of the wrapping function.  With `note` the call is remembered
\* in `first` (if none is yet), and first.others then records whether a call
\* with another dict has followed it
Invocation(note) ==
    /\ pc = "wrapped"
    /\ last' = [kind |-> "call", d |-> d, out |-> F(wrapper, d)]
    /\ first' = IF first = NoCall
                THEN IF note
                     THEN [kind |-> "call", d |-> d, out |-> F(wrapper, d),
                           others |-> FALSE]
                     ELSE first
                ELSE [first EXCEPT !.others = @ \/ (d # first.d)]
    /\ UNCHANGED <<pc, _as, target, deco, wrapper, raised, d>>

Call == Invocation(FALSE)

Next ==
    \/ \E a \in DefkArgs : Defk(a)
    \/ \E f \in Funcs \cup {NoneObj} : Decorate(f)
    \/ Call

Spec == Init /\ [][Next]_vars

\* the dicts a caller passes in turn to one wrapping function
CallerDicts ==
    {EmptyDict, [a |-> 1], [c |-> 5, f |-> 9], [a |-> 1, c |-> 5, f |-> 9]}

InitRepeat ==
    /\ pc = "start"
    /\ _as = Unset
    /\ target = Unset
    /\ deco = NoDeco
    /\ wrapper = NoWrapper
    /\ raised = ""
    /\ d \in CallerDicts
    /\ last = NoCall
    /\ first = NoCall

\* the caller turns to another dict
Pass(m) ==
    /\ pc = "wrapped"
    /\ m # d
    /\ d' = m
    /\ UNCHANGED <<pc, _as, target, deco, wrapper, raised, last, first>>

CallNoted == \E note \in BOOLEAN : Invocation(note)

NextRepeat ==
    \/ \E a \in DefkArgs : Defk(a)
    \/ \E f \in Funcs \cup {NoneObj} : Decorate(f)
    \/ \E m \in CallerDicts : Pass(m)
    \/ CallNoted

SpecRepeat == InitRepeat /\ [][NextRepeat]_vars

(* ------------------------------ properties ----------------------------- *)
(* The properties speak of what went in (the argument of defk in _as, the  *)
(* decorated function in target, the dict of the call in last.d) and of    *)
(* what came out (last.out), not of the closure's own fields.              *)

\* the alias name the construction call configured, if any
ConfAlias == IF _as.type = "str" THEN _as.s ELSE None

Called == pc = "wrapped" /\ last.kind = "call"

NParams == Len(target.args)

FirstDefaulted == NParams - Len(target.defaults) + 1

HasDefault(p) == p >= FirstDefaulted

DeclaredDefault(p) == target.defaults[p - FirstDefaulted + 1]

IsAliasParam(p) == target.args[p] = ConfAlias

ParamSet == {target.args[p] : p \in 1..NParams}

\* positions of the required parameters (no default, not the alias) that
\* dict m has no key for
MissingRequired(m) ==
    {p \in 1..NParams :
        ~HasDefault(p) /\ ~IsAliasParam(p) /\ target.args[p] \notin DOMAIN m}

Least(S) == CHOOSE x \in S : \A y \in S : x <= y

\* the value parameter p is to be bound to, given dict m
Expected(m, p) ==
    IF IsAliasParam(p) THEN DictV(m)
    ELSE IF target.args[p] \in DOMAIN m THEN IntV(m[target.args[p]])
    ELSE IntV(DeclaredDefault(p))

\* a call whose dict has a key for every required parameter
BindingSucceeds == Called /\ MissingRequired(last.d) = {}

\* C1: when the dict lacks a required parameter (no default, not the alias),
\* the call raises KeyError naming the first such parameter in declaration
\* order, and the target function is not invoked.
C1_MissingKey ==
    (Called /\ MissingRequired(last.d) # {}) =>
        /\ last.out.kind = "raise"
        /\ last.out.exc = "KeyError"
        /\ last.out.by = "F"
        /\ last.out.key = target.args[Least(MissingRequired(last.d))]
        /\ last.out.calls = 0

\* two required parameters are missing, and the call has raised
C1_Witness ==
    /\ Called
    /\ Cardinality(MissingRequired(last.d)) >= 2
    /\ last.out.kind = "raise"

\* the values of dict m for the parameters, in declaration order
Positionally(m) == [p \in 1..NParams |-> IntV(m[target.args[p]])]

OnlyRequired ==
    /\ Len(target.defaults) = 0
    /\ target.keywords = None
    /\ ConfAlias \notin ParamSet

\* C2: for a target with only required parameters, no alias and no remainder
\* parameter, and a dict with a key for every parameter, the call does what
\* calling the target with the dict's values positionally, in declaration
\* order, does; keys that are no parameter names play no part.
C2_SameAsDirectCall ==
    (Called /\ OnlyRequired /\ ParamSet \subseteq DOMAIN last.d) =>
        /\ last.out.calls = 1
        /\ last.out.by = "target"
        /\ last.out.args = Positionally(last.d)
        /\ last.out.kw = EmptyDict
        /\ ~last.out.splatted
        /\ target.body = "returns" =>
              /\ last.out.kind = "return"
              /\ last.out.value.params = Positionally(last.d)
              /\ last.out.value.kw = EmptyDict
        /\ target.body = "raisesKeyError" =>
              last.out.kind = "raise" /\ last.out.exc = "KeyError"
        /\ target.body = "raisesValueError" =>
              last.out.kind = "raise" /\ last.out.exc = "ValueError"

\* two required parameters, a dict with a stray key as well, and a return
C2_Witness ==
    /\ Called
    /\ OnlyRequired
    /\ NParams = 2
    /\ ParamSet \subseteq DOMAIN last.d
    /\ DOMAIN last.d # ParamSet
    /\ last.d[target.args[1]] # last.d[target.args[2]]
    /\ last.out.kind = "return"

\* C3: on a call that binds, every defaulted parameter that is not the alias
\* is bound to the dict's value when the dict has its key, and to its own
\* declared default when it has not.
C3_Defaults ==
    BindingSucceeds =>
        /\ Len(last.out.args) = NParams
        /\ \A p \in 1..NParams :
              (HasDefault(p) /\ ~IsAliasParam(p)) =>
                  last.out.args[p] =
                      IF target.args[p] \in DOMAIN last.d
                      THEN IntV(last.d[target.args[p]])
                      ELSE IntV(DeclaredDefault(p))

\* two defaulted parameters: the dict overrides the first, the second falls
\* back to its default
C3_Witness ==
    /\ BindingSucceeds
    /\ Len(target.defaults) >= 2
    /\ ConfAlias \notin ParamSet
    /\ target.args[NParams - 1] \in DOMAIN last.d
    /\ target.args[NParams] \notin DOMAIN last.d
    /\ last.out.calls = 1

\* C4: when the alias is a declared parameter, it is bound to the whole dict
\* and never to the dict's value for its name: no KeyError names it, the call
\* binds whenever the other required parameters have keys, and every other
\* parameter is resolved by its own name.
C4_Alias ==
    (Called /\ ConfAlias \in ParamSet) =>
        /\ ~(last.out.by = "F" /\ last.out.key = ConfAlias)
        /\ MissingRequired(last.d) = {} =>
              /\ last.out.calls = 1
              /\ Len(last.out.args) = NParams
              /\ \A p \in 1..NParams :
                    last.out.args[p] =
                        IF IsAliasParam(p) THEN DictV(last.d)
                        ELSE Expected(last.d, p)

\* the alias parameter has a default and the dict a key of its name
C4_Witness ==
    /\ Called
    /\ ConfAlias \in ParamSet
    /\ ConfAlias \in DOMAIN last.d
    /\ \E p \in 1..NParams : IsAliasParam(p) /\ HasDefault(p)
    /\ NParams >= 2
    /\ last.out.calls = 1

\* the sub-dict of m whose keys are no declared parameter names
Leftover(m) == [k \in DOMAIN m \ ParamSet |-> m[k]]

\* C5: on a call that binds, a target with a remainder parameter is passed,
\* as named arguments, exactly the dict's entries whose keys are no declared
\* parameter names (a key that equals the alias name is left out too); a
\* target without one is passed no named arguments.
C5_Remainder ==
    BindingSucceeds =>
        IF target.keywords # None
        THEN /\ last.out.splatted
             /\ last.out.kw = Leftover(last.d)
             /\ last.out.kind = "return" => last.out.value.kw = Leftover(last.d)
        ELSE /\ ~last.out.splatted
             /\ last.out.kw = EmptyDict

\* the dict has a key of the alias's name and a stray key besides
C5_Witness ==
    /\ BindingSucceeds
    /\ target.keywords # None
    /\ ConfAlias \in ParamSet
    /\ ConfAlias \in DOMAIN last.d
    /\ DOMAIN last.d \ ParamSet # {}
    /\ last.out.kind = "return"

\* C6: a string argument of the construction call (the empty string too)
\* yields a decorator with that alias, which yields the wrapping function of
\* the function it is applied to; a callable argument yields its wrapping
\* function at once, with no alias.
C6_TypeDispatch ==
    pc # "start" =>
        /\ _as.type = "str" =>
              /\ deco = [kind |-> "decorator", alias |-> _as.s]
              /\ target.type = "function" =>
                    /\ pc = "wrapped"
                    /\ wrapper.f = target
                    /\ wrapper.alias = _as.s
        /\ _as.type = "function" =>
              /\ pc = "wrapped"
              /\ wrapper.f = _as
              /\ wrapper.alias = None

HasVarargs == target.type = "function" /\ target.varargs # None

\* C7 as claimed: adapting a target that declares *args fails with
\* UnsupportedSignature; no wrapping function is returned and the target is
\* never invoked.
C7_VarargsRejected ==
    HasVarargs =>
        /\ pc = "raised"
        /\ raised = "UnsupportedSignature"
        /\ wrapper = NoWrapper
        /\ last = NoCall

\* C7 as amended: adapting a target that declares *args succeeds, nothing is
\* raised, the wrapping function binds the named parameters only, and the
\* target's *args parameter receives no values.
C7_VarargsIgnored ==
    HasVarargs =>
        /\ pc = "wrapped"
        /\ raised = ""
        /\ wrapper.kind = "F"
        /\ wrapper.keys = target.args
        /\ BindingSucceeds =>
              /\ last.out.calls = 1
              /\ Len(last.out.args) = NParams
              /\ last.out.kind = "return" => last.out.value.star = <<>>

\* a target with *args and two named parameters has been called and returned
C7_Witness ==
    /\ HasVarargs
    /\ Called
    /\ NParams = 2
    /\ last.out.kind = "return"

\* C8: on a call that binds, the target is invoked once; what it returns is
\* returned as it is, and what it raises (a KeyError too, also when the
\* target has defaulted parameters) reaches the caller as it is.
C8_TargetOutcome ==
    BindingSucceeds =>
        /\ last.out.calls = 1
        /\ last.out.by = "target"
        /\ target.body = "returns" =>
              /\ last.out.kind = "return"
              /\ last.out.value.params = last.out.args
              /\ last.out.value.kw = last.out.kw
        /\ target.body = "raisesKeyError" =>
              /\ last.out.kind = "raise"
              /\ last.out.exc = "KeyError"
              /\ last.out.key = "inner"
        /\ target.body = "raisesValueError" =>
              /\ last.out.kind = "raise"
              /\ last.out.exc = "ValueError"

\* a target with a defaulted parameter, bound to its default, raised KeyError
C8_Witness ==
    /\ BindingSucceeds
    /\ Len(target.defaults) > 0
    /\ target.args[NParams] \notin DOMAIN last.d
    /\ target.body = "raisesKeyError"
    /\ last.out.exc = "KeyError"

DoctestDict == [a |-> 1, c |-> 5, f |-> 9]

\* C10: on a call that binds, the positional arguments are one per declared
\* parameter, in declaration order (the whole dict at the alias's position,
\* a default at its own), and the remainder goes separately, as named
\* arguments; test_complex, adapted with alias 'whole' and called with
\* {a:1, c:5, f:9}, receives a=1, c=5, whole=the dict, r=101, k={f:9}.
C10_BoundCall ==
    BindingSucceeds =>
        /\ Len(last.out.args) = NParams
        /\ \A p \in 1..NParams : last.out.args[p] = Expected(last.d, p)
        /\ target.keywords # None => last.out.splatted
        /\ (target = test_complex /\ ConfAlias = "whole"
                /\ last.d = DoctestDict) =>
              /\ last.out.kind = "return"
              /\ last.out.value.params =
                    <<IntV(1), IntV(5), DictV(DoctestDict), IntV(101)>>
              /\ last.out.value.kw = [f |-> 9]

\* the doctest's call of test_complex
C10_Witness ==
    /\ BindingSucceeds
    /\ target = test_complex
    /\ ConfAlias = "whole"
    /\ last.d = DoctestDict
    /\ last.out.kind = "return"

====
